---- MODULE Spec2Model ----
(***************************************************************************)
(* ChronoFlow: the free-time-slot computation and the slot quality score   *)
(* of backend/app/services/google_calendar_service.py.                     *)
(*                                                                         *)
(* Instants are seconds since the midnight that starts the modelled day.   *)
(* Quality scores are held in tenths (0.5 is 5), so that the additive rule *)
(* table is exact integer arithmetic.  Python values that a preference     *)
(* dictionary can hold are records [kind, s, n]; strings are sequences of  *)
(* one-character strings so that split() and int() are computed.           *)
(***************************************************************************)
EXTENDS Integers, Sequences, FiniteSets, TLC

(***************************************************************************)
(* Python values                                                           *)
(***************************************************************************)
PyInt(n) == [kind |-> "int", s |-> <<>>, n |-> n]

PyStr(s) == [kind |-> "str", s |-> s, n |-> 0]

PyNone == [kind |-> "none", s |-> <<>>, n |-> 0]

\* a key that the dictionary does not hold
Absent == [kind |-> "absent", s |-> <<>>, n |-> 0]
\* the marker of a ValueError raised inside a try block
ValueError == [kind |-> "ValueError", s |-> <<>>, n |-> 0]

\* dict.get(key, default)
Get(d, key, default) == IF d[key].kind = "absent" THEN default ELSE d[key]

(***************************************************************************)
(* str.split and int() on character sequences                              *)
(***************************************************************************)
Digits == <<"0", "1", "2", "3", "4", "5", "6", "7", "8", "9">>

DigitValue(c) == (CHOOSE i \in 1..10 : Digits[i] = c) - 1

IsDigit(c) == \E i \in 1..10 : Digits[i] = c

\* c in s
Contains(s, c) == \E i \in 1..Len(s) : s[i] = c

\* index of the first occurrence of c in s, 0 when there is none
IndexOf(s, c) == IF Contains(s, c) THEN CHOOSE i \in 1..Len(s) : s[i] = c /\ \A j \in 1..(i - 1) : s[j] # c ELSE 0

\* s.split(c)[0]
SplitFirst(s, c) == IF Contains(s, c) THEN SubSeq(s, 1, IndexOf(s, c) - 1) ELSE s

\* the text after the first c (s is known to contain c)
AfterFirst(s, c) == SubSeq(s, IndexOf(s, c) + 1, Len(s))

\* s.split(c)[1], for s that contains c
SplitSecond(s, c) == SplitFirst(AfterFirst(s, c), c)

\* the digits of a literal without its sign
Unsigned(x) == IF x # <<>> /\ x[1] \in {"-", "+"} THEN Tail(x) ELSE x

\* int(x) succeeds: an optional sign and at least one digit (the modelled
\* alphabet has neither blanks nor underscores)
IsIntLiteral(x) == Unsigned(x) # <<>> /\ \A i \in 1..Len(Unsigned(x)) : IsDigit(Unsigned(x)[i])

RECURSIVE DigitsValue(_)
DigitsValue(x) == IF x = <<>> THEN 0 ELSE 10 * DigitsValue(SubSeq(x, 1, Len(x) - 1)) + DigitValue(x[Len(x)])

\* int(x) for a literal
IntValue(x) == IF x[1] = "-" THEN 0 - DigitsValue(Unsigned(x)) ELSE DigitsValue(Unsigned(x))

(***************************************************************************)
(* _calculate_slot_quality                                                 *)
(***************************************************************************)
\* 1e-1 units
DefaultQuality == 5

DefaultWorkStart == 9

DefaultWorkEnd == 17

DefaultPeakStart == 10

DefaultPeakEnd == 12

S_0900 == <<"0", "9", ":", "0", "0">>

S_1700 == <<"1", "7", ":", "0", "0">>

S_1000 == <<"1", "0", ":", "0", "0">>

S_1200 == <<"1", "2", ":", "0", "0">>

\* start_time.hour
HourOf(t) == (t \div 3600) % 24

\* the "T" of a datetime string is not looked for
HourTextBareOnly(s) == SplitFirst(s, ":")

\* the text handed to int(): after "T" and before ":" for a datetime string,
\* before ":" otherwise
HourText(s) == IF Contains(s, "T") THEN SplitFirst(SplitSecond(s, "T"), ":") ELSE SplitFirst(s, ":")

\* one branch of a try block: a string is parsed, anything else is replaced
\* by the value of the legacy key
ExtractHour(raw, legacy) ==
    IF raw.kind = "str"
    THEN (IF IsIntLiteral(HourText(raw.s)) THEN PyInt(IntValue(HourText(raw.s))) ELSE ValueError)
    ELSE legacy

\* the except clause of the work-hours block
WorkFallback == <<PyInt(DefaultWorkStart), PyInt(DefaultWorkEnd)>>

\* the except clause of the peak-hours block
PeakFallback == <<PyInt(DefaultPeakStart), PyInt(DefaultPeakEnd)>>

\* no except clause: the failed parse reaches the comparison
TryPairUncaught(a, b, fallback) == <<a, b>>

\* try/except: a ValueError in either branch replaces both values
TryPair(a, b, fallback) == IF a = ValueError \/ b = ValueError THEN fallback ELSE <<a, b>>

\* <<work_start, work_end>>
WorkWindow(p) ==
    TryPair(ExtractHour(Get(p, "work_start_time", PyStr(S_0900)), Get(p, "work_start_hour", PyInt(DefaultWorkStart))),
            ExtractHour(Get(p, "work_end_time", PyStr(S_1700)), Get(p, "work_end_hour", PyInt(DefaultWorkEnd))),
            WorkFallback)

\* <<peak_start, peak_end>>
PeakWindow(p) ==
    TryPair(ExtractHour(Get(p, "peak_hours_start", PyStr(S_1000)), Get(p, "peak_hours_start", PyInt(DefaultPeakStart))),
            ExtractHour(Get(p, "peak_hours_end", PyStr(S_1200)), Get(p, "peak_hours_end", PyInt(DefaultPeakEnd))),
            PeakFallback)

\* a window whose start is behind its end goes on over midnight
InWindowOvernight(w, hour) ==
    IF w[1].kind # "int" \/ w[2].kind # "int" THEN "TypeError"
    ELSE IF w[1].n < w[2].n THEN (IF w[1].n <= hour /\ hour < w[2].n THEN "yes" ELSE "no")
    ELSE IF w[1].n <= hour \/ hour < w[2].n THEN "yes" ELSE "no"

\* lo <= hour <= hi
InWindowInclusive(w, hour) ==
    IF w[1].kind # "int" THEN "TypeError"
    ELSE IF ~(w[1].n <= hour) THEN "no"
    ELSE IF w[2].kind # "int" THEN "TypeError"
    ELSE IF hour <= w[2].n THEN "yes" ELSE "no"

\* lo <= hour < hi, a chained comparison: "yes", "no", or "TypeError" when
\* an operand that is compared is not a number
InWindow(w, hour) ==
    IF w[1].kind # "int" THEN "TypeError"
    ELSE IF ~(w[1].n <= hour) THEN "no"
    ELSE IF w[2].kind # "int" THEN "TypeError"
    ELSE IF hour < w[2].n THEN "yes" ELSE "no"

WindowBonus(r) == IF r = "yes" THEN 3 ELSE 0

\* the work-style adjustment
StyleBonus(p, hour) ==
    LET work_style == Get(p, "work_style", PyStr(<<"flexible">>))
    IN IF work_style = PyStr(<<"morning_person">>) /\ hour < 12 THEN 2
       ELSE IF work_style = PyStr(<<"evening_person">>) /\ hour >= 15 THEN 2 ELSE 0

\* the penalty for very early or very late hours
HourPenalty(hour) == IF hour < 7 \/ hour > 20 THEN 3 ELSE 0

\* the two bonuses for longer slots exclude each other
DurationBonusExclusive(seconds) == IF seconds >= 60 * 60 THEN 1 ELSE 0

\* the bonus for longer slots; the duration is not truncated here
DurationBonus(seconds) == (IF seconds >= 60 * 60 THEN 1 ELSE 0) + (IF seconds >= 120 * 60 THEN 1 ELSE 0)

\* the upper limit is not applied
ClampLowerOnly(q) == IF q < 0 THEN 0 ELSE q

\* max(0.0, min(1.0, quality))
Clamp(q) == IF q > 10 THEN 10 ELSE IF q < 0 THEN 0 ELSE q

Returned(v) == [raised |-> "none", value |-> v]

Raised(e) == [raised |-> e, value |-> 0]

\* the comparisons run in program order: a TypeError of the work-hours
\* comparison or of the peak-hours comparison ends the call
CalculateSlotQuality(slot_from, slot_to, p) ==
    LET hour == HourOf(slot_from)
        work == InWindow(WorkWindow(p), hour)
        peak == InWindow(PeakWindow(p), hour)
    IN IF work = "TypeError" \/ peak = "TypeError" THEN Raised("TypeError")
       ELSE Returned(Clamp(DefaultQuality + WindowBonus(work) + WindowBonus(peak) + StyleBonus(p, hour)
                           - HourPenalty(hour) + DurationBonus(slot_to - slot_from)))


(***************************************************************************)
(* calculate_free_time_slots                                               *)
(***************************************************************************)
CalendarEvent(s, e, b) == [start_time |-> s, end_time |-> e, is_busy |-> b]

FreeTimeSlot(s, e, d, q) == [start_time |-> s, end_time |-> e, duration_minutes |-> d, quality_score |-> q]

\* no event is left out
BusyEventsAll(events) == events

\* [e for e in events if e.is_busy]
BusyEvents(events) == SelectSeq(events, LAMBDA e : e.is_busy)

\* list.sort(key=start_time) is stable: an event goes behind every event
\* whose start_time is not later than its own
RECURSIVE InsertByStart(_, _)
InsertByStart(sorted, e) ==
    IF sorted = <<>> THEN <<e>>
    ELSE IF Head(sorted).start_time <= e.start_time THEN <<Head(sorted)>> \o InsertByStart(Tail(sorted), e)
    ELSE <<e>> \o sorted

\* the list is walked in the order given
SortByStartNone(evs) == evs

RECURSIVE SortByStart(_)
SortByStart(evs) ==
    IF evs = <<>> THEN <<>>
    ELSE InsertByStart(SortByStart(SubSeq(evs, 1, Len(evs) - 1)), evs[Len(evs)])

\* a started minute counts as a whole one
CeilMinutes(seconds) == (seconds + 59) \div 60

\* int(x / 60): truncation toward zero
TruncMinutes(seconds) == IF seconds >= 0 THEN seconds \div 60 ELSE 0 - ((0 - seconds) \div 60)

\* int((b - a).total_seconds() / 60)
SlotDuration(a, b) == TruncMinutes(b - a)

\* the guard of a candidate gap [a, b)
IsGap(a, b) == a < b

\* the minimum is not applied to the gap
KeepSlotAnyLength(duration, minimum) == duration >= 0

\* slot_duration >= minimum_slot_minutes
KeepSlot(duration, minimum) == duration >= minimum

\* the cursor follows the last event, also backwards
AdvanceToEventEnd(current_time, event) == event.end_time

\* current_time = max(current_time, event.end_time)
Advance(current_time, event) == IF event.end_time > current_time THEN event.end_time ELSE current_time

\* one candidate gap [a, b): the slots after it, or the exception that
\* _calculate_slot_quality raises
EmitGap(free_slots, a, b, p, minimum) ==
    IF IsGap(a, b) /\ KeepSlot(SlotDuration(a, b), minimum)
    THEN LET q == CalculateSlotQuality(a, b, p)
         IN IF q.raised # "none" THEN [raised |-> q.raised, free_slots |-> <<>>]
            ELSE [raised |-> "none", free_slots |-> Append(free_slots, FreeTimeSlot(a, b, SlotDuration(a, b), q.value))]
    ELSE [raised |-> "none", free_slots |-> free_slots]

\* the time behind the last event is not looked at
RECURSIVE WalkWithoutTail(_, _, _, _, _, _)
WalkWithoutTail(busy, current_time, free_slots, end_time, p, minimum) ==
    IF busy = <<>> THEN [raised |-> "none", free_slots |-> free_slots]
    ELSE LET g == EmitGap(free_slots, current_time, Head(busy).start_time, p, minimum)
         IN IF g.raised # "none" THEN g
            ELSE WalkWithoutTail(Tail(busy), Advance(current_time, Head(busy)), g.free_slots, end_time, p, minimum)

\* the for loop over busy_events, then the gap after the last event
RECURSIVE Walk(_, _, _, _, _, _)
Walk(busy, current_time, free_slots, end_time, p, minimum) ==
    IF busy = <<>> THEN EmitGap(free_slots, current_time, end_time, p, minimum)
    ELSE LET g == EmitGap(free_slots, current_time, Head(busy).start_time, p, minimum)
         IN IF g.raised # "none" THEN g
            ELSE Walk(Tail(busy), Advance(current_time, Head(busy)), g.free_slots, end_time, p, minimum)

\* a slot goes behind every slot whose score is not lower than its own
RECURSIVE InsertByQuality(_, _)
InsertByQuality(ranked, slot) ==
    IF ranked = <<>> THEN <<slot>>
    ELSE IF Head(ranked).quality_score >= slot.quality_score THEN <<Head(ranked)>> \o InsertByQuality(Tail(ranked), slot)
    ELSE <<slot>> \o ranked

RECURSIVE RankByQuality(_)
RankByQuality(slots) ==
    IF slots = <<>> THEN <<>>
    ELSE InsertByQuality(RankByQuality(SubSeq(slots, 1, Len(slots) - 1)), slots[Len(slots)])

\* the slots are returned best score first
CalculateFreeTimeSlotsRanked(evs, start, end, p, minimum) ==
    LET r == Walk(SortByStart(BusyEvents(evs)), start, <<>>, end, p, minimum)
    IN [raised |-> r.raised, free_slots |-> RankByQuality(r.free_slots)]

CalculateFreeTimeSlots(evs, start, end, p, minimum) ==
    Walk(SortByStart(BusyEvents(evs)), start, <<>>, end, p, minimum)

(***************************************************************************)
(* Inputs                                                                  *)
(***************************************************************************)
HMS(h, m, s) == h * 3600 + m * 60 + s

PrefKeys == {"work_start_time", "work_end_time", "work_start_hour", "work_end_hour", "peak_hours_start", "peak_hours_end", "work_style"}

\* {}: every key missing
NoPrefs == [k \in PrefKeys |-> Absent]

S_0800 == <<"0", "8", ":", "0", "0">>

S_140000 == <<"1", "4", ":", "0", "0", ":", "0", "0">>

S_1600 == <<"1", "6", ":", "0", "0">>

S_Stamp20 == <<"2", "0", "2", "5", "-", "0", "7", "-", "2", "6", "T", "2", "0", ":", "0", "0", ":", "0", "0">>

S_NotATime == <<"n", "o", "t", "-", "a", "-", "t", "i", "m", "e">>

S_NoHour == <<":", "3", "0">>

S_BadStamp == <<"2", "0", "2", "5", "-", "0", "7", "-", "2", "6", "T", "x">>

S_Empty == <<>>

\* the longest list of calendar events
MaxEvents == 2

\* the instants at which a calendar event starts or ends
EventInstants == {HMS(9, 0, 0), HMS(12, 0, 0), HMS(13, 0, 0), HMS(17, 0, 0)}

RangeStarts == {HMS(9, 0, 0), HMS(12, 0, 30)}

RangeEnds == {HMS(9, 0, 0), HMS(12, 0, 30), HMS(17, 0, 0)}

Minimums == {0, 30}

\* blocking events with any two end points (the schema does not order them)
\* and tentative events
Events ==
    {CalendarEvent(s, e, TRUE) : s \in EventInstants, e \in EventInstants}
    \cup {CalendarEvent(HMS(12, 0, 0), HMS(13, 0, 0), FALSE), CalendarEvent(HMS(9, 0, 0), HMS(17, 0, 0), FALSE)}

EventLists == UNION {[1..n -> Events] : n \in 0..MaxEvents}

\* the preference dictionaries of the slot computation
CalcPrefs == {NoPrefs, [NoPrefs EXCEPT !["work_start_time"] = PyStr(S_NotATime)], [NoPrefs EXCEPT !["peak_hours_start"] = PyNone]}

\* the preference dictionaries of the score
ScorePrefs ==
    {[work_start_time |-> a, work_end_time |-> b, work_start_hour |-> c, work_end_hour |-> Absent,
      peak_hours_start |-> d, peak_hours_end |-> e, work_style |-> f] :
        a \in {Absent, PyStr(S_0800), PyStr(S_NotATime), PyNone},
        b \in {Absent, PyStr(S_Stamp20), PyStr(S_BadStamp), PyInt(18)},
        c \in {Absent, PyInt(7)},
        d \in {Absent, PyStr(S_140000), PyStr(S_Empty), PyNone},
        e \in {Absent, PyStr(S_1600), PyStr(S_NoHour), PyInt(15)},
        f \in {Absent, PyStr(<<"morning_person">>), PyStr(<<"evening_person">>)}}
    \cup
    \* windows that end at or before their start: work hours 8 to 8 and 20
    \* to 8, peak hours 16 to 14 and 16 to 16 (and 16 to 20)
    {[work_start_time |-> PyStr(a), work_end_time |-> PyStr(S_0800), work_start_hour |-> Absent, work_end_hour |-> Absent,
      peak_hours_start |-> PyStr(S_1600), peak_hours_end |-> PyStr(e), work_style |-> Absent] :
        a \in {S_0800, S_Stamp20}, e \in {S_140000, S_1600, S_Stamp20}}

ScoreDurations == {HMS(0, 30, 0), HMS(1, 0, 0), HMS(2, 0, 0)}

(***************************************************************************)
(* State                                                                   *)
(***************************************************************************)
VARIABLES
    events, start_time, end_time, user_preferences, minimum_slot_minutes,
    calc_pc, calc_result,
    slot_start, slot_end, slot_preferences, score_pc, score_result,
    service, call_args, given_args, call_pc, call_busy, call_cursor, slot_lists, call_result, overlapped,
    records, api_call, api_response,
    request_tasks, user_access_token, create_calendar_events, google_calendar, ai_content,
    sched_pc, sched_free_slots, prompt_free_slots, scheduled_tasks, created_events, scheduling_response, reschedule_log

calc_vars == <<events, start_time, end_time, user_preferences, minimum_slot_minutes, calc_pc, calc_result>>

score_vars == <<slot_start, slot_end, slot_preferences, score_pc, score_result>>

calls_vars == <<service, call_args, given_args, call_pc, call_busy, call_cursor, slot_lists, call_result, overlapped>>

sched_vars ==
    <<request_tasks, user_access_token, create_calendar_events, google_calendar, ai_content,
      sched_pc, sched_free_slots, prompt_free_slots, scheduled_tasks, created_events, scheduling_response, reschedule_log>>

\* the state of the application outside the slot computation
app_vars == <<records, api_call, api_response, sched_vars>>

vars == <<calc_vars, score_vars, calls_vars, app_vars>>

NoCalcResult == [raised |-> "none", free_slots |-> <<>>]

\* the callers that use the service object at the same time
Callers == {1, 2}

\* GoogleCalendarService() after __init__
ServiceAtConstruction == [base_url |-> "https://www.googleapis.com/calendar/v3"]

Arguments(evs, start, end, p, minimum) ==
    [events |-> evs, start_time |-> start, end_time |-> end, user_preferences |-> p, minimum_slot_minutes |-> minimum]

\* no call of a second caller is modelled
CallsIdle ==
    /\ service = ServiceAtConstruction
    /\ call_args = [c \in Callers |-> Arguments(<<>>, 0, 0, NoPrefs, 15)]
    /\ given_args = call_args
    /\ call_pc = [c \in Callers |-> "idle"]
    /\ call_busy = [c \in Callers |-> <<>>]
    /\ call_cursor = [c \in Callers |-> 0]
    /\ slot_lists = [c \in Callers |-> <<>>]
    /\ call_result = [c \in Callers |-> NoCalcResult]
    /\ overlapped = FALSE

NoScoreResult == Returned(0)

CalcIdle ==
    /\ events = <<>>
    /\ start_time = 0
    /\ end_time = 0
    /\ user_preferences = NoPrefs
    /\ minimum_slot_minutes = 15
    /\ calc_pc = "idle"
    /\ calc_result = NoCalcResult

ScoreIdle ==
    /\ slot_start = 0
    /\ slot_end = 0
    /\ slot_preferences = NoPrefs
    /\ score_pc = "idle"
    /\ score_result = NoScoreResult

\* the identifiers the database can give to a document
RecordIds == {"id1", "id2"}

\* an identifier no document has had, and one whose document was deleted
Unused == [kind |-> "unused"]

Deleted == [kind |-> "deleted"]

\* no request has reached the API
ApiIdle ==
    /\ records = [i \in RecordIds |-> Unused]
    /\ api_call = [op |-> "none"]
    /\ api_response = [status |-> 0]

\* no scheduling run has started
SchedIdle ==
    /\ request_tasks = <<>>
    /\ user_access_token = PyNone
    /\ create_calendar_events = TRUE
    /\ google_calendar = <<>>
    /\ ai_content = <<>>
    /\ sched_pc = "idle"
    /\ sched_free_slots = <<>>
    /\ prompt_free_slots = <<>>
    /\ scheduled_tasks = <<>>
    /\ created_events = <<>>
    /\ scheduling_response = [success |-> "none"]
    /\ reschedule_log = <<>>

AppIdle == ApiIdle /\ SchedIdle

\* a caller holds the arguments of calculate_free_time_slots
Init ==
    /\ events \in EventLists
    /\ start_time \in RangeStarts
    /\ end_time \in RangeEnds
    /\ user_preferences \in CalcPrefs
    /\ minimum_slot_minutes \in Minimums
    /\ calc_pc = "call"
    /\ calc_result = NoCalcResult
    /\ ScoreIdle
    /\ CallsIdle
    /\ AppIdle

\* calculate_free_time_slots runs to its return or to the exception it raises
CalculateFreeTimeSlotsCall ==
    /\ calc_pc = "call"
    /\ calc_result' = CalculateFreeTimeSlots(events, start_time, end_time, user_preferences, minimum_slot_minutes)
    /\ calc_pc' = "done"
    /\ UNCHANGED <<events, start_time, end_time, user_preferences, minimum_slot_minutes, score_vars, calls_vars, app_vars>>

Next == CalculateFreeTimeSlotsCall

Spec == Init /\ [][Next]_vars

\* a caller holds the arguments of _calculate_slot_quality
InitScore ==
    /\ \E h \in 0..23, d \in ScoreDurations : slot_start = HMS(h, 0, 0) /\ slot_end = HMS(h, 0, 0) + d
    /\ slot_preferences \in ScorePrefs
    /\ score_pc = "call"
    /\ score_result = NoScoreResult
    /\ CalcIdle
    /\ CallsIdle
    /\ AppIdle

\* _calculate_slot_quality runs to its return or to the exception it raises
CalculateSlotQualityCall ==
    /\ score_pc = "call"
    /\ score_result' = CalculateSlotQuality(slot_start, slot_end, slot_preferences)
    /\ score_pc' = "done"
    /\ UNCHANGED <<slot_start, slot_end, slot_preferences, calc_vars, calls_vars, app_vars>>

NextScore == CalculateSlotQualityCall

SpecScore == InitScore /\ [][NextScore]_vars


(***************************************************************************)
(* Reference definitions of the properties                                 *)
(***************************************************************************)
Min2(a, b) == IF a < b THEN a ELSE b

Max2(a, b) == IF a > b THEN a ELSE b

CalcDone == calc_pc = "done"

ScoreDone == score_pc = "done"

Slots == calc_result.free_slots

TimeFields == {"work_start_time", "work_end_time", "peak_hours_start", "peak_hours_end"}

LegacyKeys == {"work_start_hour", "work_end_hour"}

DocumentedDefault(k) ==
    CASE k = "work_start_time" -> 9
      [] k = "work_end_time" -> 17
      [] k = "peak_hours_start" -> 10
      [] k = "peak_hours_end" -> 12

\* the hour that a well-formed preference string states, read off the text
WrittenHour(v) ==
    CASE v = PyStr(S_0800) -> 8
      [] v = PyStr(S_Stamp20) -> 20
      [] v = PyStr(S_140000) -> 14
      [] v = PyStr(S_1600) -> 16

WellFormed(v) == v \in {PyStr(S_0800), PyStr(S_Stamp20), PyStr(S_140000), PyStr(S_1600)}

\* a string whose hour component is not a number
Malformed(v) == v.kind = "str" /\ ~WellFormed(v)

\* a value that is present and is not a string
NonString(v) == v.kind \in {"none", "int"}

\* the hour a field stands for when defaults are substituted per field
HourMeant(p, k) == IF WellFormed(p[k]) THEN WrittenHour(p[k]) ELSE DocumentedDefault(k)

\* the hour the score computation compares against for a field
HourUsed(p, k) ==
    CASE k = "work_start_time" -> WorkWindow(p)[1]
      [] k = "work_end_time" -> WorkWindow(p)[2]
      [] k = "peak_hours_start" -> PeakWindow(p)[1]
      [] k = "peak_hours_end" -> PeakWindow(p)[2]

StyleOf(p) == IF p["work_style"].kind = "str" THEN p["work_style"].s[1] ELSE "flexible"

\* the sum of the rule table before it is clamped, in tenths
RuleSum(h, minutes, ws, we, ps, pe, style) ==
    5 + (IF ws <= h /\ h < we THEN 3 ELSE 0)
      + (IF ps <= h /\ h < pe THEN 3 ELSE 0)
      + (IF (style = "morning_person" /\ h < 12) \/ (style = "evening_person" /\ h >= 15) THEN 2 ELSE 0)
      - (IF h < 7 \/ h > 20 THEN 3 ELSE 0)
      + (IF minutes >= 60 THEN 1 ELSE 0)
      + (IF minutes >= 120 THEN 1 ELSE 0)

\* the rule table applied to the slot of the state, defaults per field
SlotRuleSum ==
    RuleSum(slot_start \div 3600, (slot_end - slot_start) \div 60,
            HourMeant(slot_preferences, "work_start_time"), HourMeant(slot_preferences, "work_end_time"),
            HourMeant(slot_preferences, "peak_hours_start"), HourMeant(slot_preferences, "peak_hours_end"),
            StyleOf(slot_preferences))

SlotRuleScore == Max2(0, Min2(10, SlotRuleSum))

AllWellFormed == \A k \in TimeFields : slot_preferences[k] = Absent \/ WellFormed(slot_preferences[k])

\* the window of the preferences ends at or before the hour it starts
WorkInverted == HourMeant(slot_preferences, "work_start_time") >= HourMeant(slot_preferences, "work_end_time")

PeakInverted == HourMeant(slot_preferences, "peak_hours_start") >= HourMeant(slot_preferences, "peak_hours_end")

(***************************************************************************)
(* Claims about calculate_free_time_slots, under Spec                      *)
(***************************************************************************)
\* C1: with a minimum above zero, every returned slot starts before it ends
\* and lasts at least the minimum number of minutes.
C1_SlotsLongEnough ==
    (CalcDone /\ minimum_slot_minutes > 0) =>
        \A i \in 1..Len(Slots) :
            /\ Slots[i].start_time < Slots[i].end_time
            /\ Slots[i].duration_minutes >= minimum_slot_minutes

\* a slot of three hours is returned and the half minute behind the last
\* event is dropped
C1_Witness ==
    /\ CalcDone
    /\ minimum_slot_minutes = 30
    /\ start_time = HMS(9, 0, 0)
    /\ end_time = HMS(12, 0, 30)
    /\ events = <<CalendarEvent(HMS(12, 0, 0), HMS(12, 0, 0), TRUE)>>
    /\ Len(Slots) = 1
    /\ Slots[1].duration_minutes = 180

\* C2: every returned slot lies inside the searched range.
C2_SlotsInsideRange ==
    CalcDone =>
        \A i \in 1..Len(Slots) :
            /\ start_time <= Slots[i].start_time
            /\ Slots[i].end_time <= end_time

\* C3: no returned slot intersects a blocking event whose end is not before
\* its start.
C3_SlotsAvoidBusy ==
    CalcDone =>
        \A i \in 1..Len(Slots), k \in 1..Len(events) :
            (events[k].is_busy /\ events[k].end_time >= events[k].start_time) =>
                \/ Slots[i].end_time <= events[k].start_time
                \/ events[k].end_time <= Slots[i].start_time

\* an event inside a longer one: slots before and behind the longer one
C3_Witness ==
    /\ CalcDone
    /\ Len(Slots) >= 1
    /\ \E j, k \in 1..Len(events) :
        /\ events[j].is_busy /\ events[k].is_busy
        /\ events[j].start_time < events[k].start_time
        /\ events[k].end_time < events[j].end_time
        /\ events[j].end_time < end_time
        /\ Slots[Len(Slots)].start_time = events[j].end_time

\* C4: a range that ends before it starts fails with InvalidRangeError.
C4_InvertedRangeFails ==
    (CalcDone /\ start_time > end_time) =>
        calc_result.raised = "InvalidRangeError" /\ Slots = <<>>

\* C5: a minimum of zero or less fails with InvalidConfigurationError, and
\* no slot of zero minutes is returned.
C5_NonPositiveMinimumFails ==
    (CalcDone /\ minimum_slot_minutes <= 0) =>
        calc_result.raised = "InvalidConfigurationError" /\ Slots = <<>>

(***************************************************************************)
(* Claims about _calculate_slot_quality, under SpecScore                   *)
(***************************************************************************)
\* C6: a returned score lies in [0, 1], and a rule sum above 1 gives
\* exactly 1 (it is clamped, not scaled).
C6_ScoreInUnitRange ==
    (ScoreDone /\ score_result.raised = "none") =>
        /\ 0 <= score_result.value /\ score_result.value <= 10
        /\ (AllWellFormed /\ SlotRuleSum >= 10) => score_result.value = 10

\* every bonus applies at once: the sum is 1.5 and the score 1.0
C6_Witness ==
    /\ ScoreDone
    /\ AllWellFormed
    /\ SlotRuleSum = 15
    /\ score_result = Returned(10)

\* C7: for preferences whose time fields are well-formed or missing, the
\* score is the clamped rule table, with half-open windows.
C7_ScoreIsRuleTable ==
    (ScoreDone /\ AllWellFormed) => score_result = Returned(SlotRuleScore)

\* a slot that starts at hour 20 with work hours 8 to 20: neither the work
\* bonus nor the late penalty
C7_Witness ==
    /\ ScoreDone
    /\ slot_preferences["work_start_time"] = PyStr(S_0800)
    /\ slot_preferences["work_end_time"] = PyStr(S_Stamp20)
    /\ slot_preferences["peak_hours_start"] = Absent
    /\ slot_preferences["peak_hours_end"] = Absent
    /\ slot_preferences["work_style"] = Absent
    /\ slot_start = HMS(20, 0, 0)
    /\ slot_end = HMS(20, 30, 0)
    /\ score_result = Returned(5)

\* C8: when every time field is a string or missing, a malformed string
\* does not make the call raise, and the hour used for a malformed field is
\* its documented default.
C8_MalformedStringDefaults ==
    (ScoreDone /\ \A k \in TimeFields : ~NonString(slot_preferences[k])) =>
        /\ score_result.raised = "none"
        /\ \A k \in TimeFields :
            Malformed(slot_preferences[k]) => HourUsed(slot_preferences, k) = PyInt(DocumentedDefault(k))

\* work_start_time is "not-a-time": a slot at hour 9 receives the work bonus
C8_Witness ==
    /\ ScoreDone
    /\ slot_preferences["work_start_time"] = PyStr(S_NotATime)
    /\ \A k \in TimeFields \ {"work_start_time"} : slot_preferences[k] = Absent
    /\ slot_preferences["work_style"] = Absent
    /\ slot_start = HMS(9, 0, 0)
    /\ slot_end = HMS(9, 30, 0)
    /\ score_result = Returned(8)

\* C9: when exactly one time field is malformed and the others are
\* well-formed or missing, the score is the rule table with the default for
\* that field only.
C9_DefaultsPerField ==
    (/\ ScoreDone
     /\ \E k \in TimeFields :
            /\ Malformed(slot_preferences[k])
            /\ \A j \in TimeFields \ {k} : slot_preferences[j] = Absent \/ WellFormed(slot_preferences[j]))
    => score_result = Returned(SlotRuleScore)

\* C10: a time field that is present and is not a string does not make the
\* call raise, and the hour used for it is its documented default.
C10_NonStringDefaults ==
    (/\ ScoreDone
     /\ \A k \in LegacyKeys : slot_preferences[k] = Absent
     /\ \E k \in TimeFields : NonString(slot_preferences[k]))
    => /\ score_result.raised = "none"
       /\ \A k \in TimeFields :
            NonString(slot_preferences[k]) => HourUsed(slot_preferences, k) = PyInt(DocumentedDefault(k))

(***************************************************************************)
(* The two representations of a time-of-day preference, under SpecExtract  *)
(***************************************************************************)
\* the two decimal digits of an hour, as strftime("%H") writes them
TwoDigits(n) == <<Digits[(n \div 10) + 1], Digits[(n % 10) + 1]>>

TimeForms == {"HH:MM", "HH:MM:SS", "timestamp"}

\* a time of day at hour h written in one of the forms; the minutes and the
\* seconds differ from every hour that is compared
WriteTime(h, form) ==
    CASE form = "HH:MM" -> TwoDigits(h) \o <<":", "4", "5">>
      [] form = "HH:MM:SS" -> TwoDigits(h) \o <<":", "4", "5", ":", "5", "0">>
      [] form = "timestamp" ->
            <<"2", "0", "2", "5", "-", "0", "7", "-", "2", "6", "T">> \o TwoDigits(h) \o <<":", "4", "5", ":", "5", "0">>

\* a dictionary that holds the one time field k
OneField(k, h, form) == [NoPrefs EXCEPT ![k] = PyStr(WriteTime(h, form))]

\* a caller holds a slot and preferences with one written time of day
InitExtract ==
    /\ \E h \in 0..23, d \in ScoreDurations : slot_start = HMS(h, 0, 0) /\ slot_end = HMS(h, 0, 0) + d
    /\ \E k \in TimeFields, h \in 0..23, form \in TimeForms : slot_preferences = OneField(k, h, form)
    /\ score_pc = "call"
    /\ score_result = NoScoreResult
    /\ CalcIdle
    /\ CallsIdle
    /\ AppIdle

SpecExtract == InitExtract /\ [][NextScore]_vars

\* the hours of the four time fields when field k states hour h
HourIfField(k, h, j) == IF j = k THEN h ELSE DocumentedDefault(j)

\* the rule table for the slot of the state when field k states hour h
OneFieldRuleScore(k, h) ==
    Max2(0, Min2(10, RuleSum(slot_start \div 3600, (slot_end - slot_start) \div 60,
                             HourIfField(k, h, "work_start_time"), HourIfField(k, h, "work_end_time"),
                             HourIfField(k, h, "peak_hours_start"), HourIfField(k, h, "peak_hours_end"),
                             "flexible")))

Blocking == SelectSeq(events, LAMBDA e : e.is_busy)

\* every blocking event ends at or after its start
BlockingWellFormed == \A k \in 1..Len(Blocking) : Blocking[k].start_time <= Blocking[k].end_time

\* the same call for another list of events
SameCallWith(evs) == CalculateFreeTimeSlots(evs, start_time, end_time, user_preferences, minimum_slot_minutes)

\* C12: events with is_busy = false do not affect the result: the call
\* returns what it returns for the list without them.
C12_TentativeIgnored == CalcDone => calc_result = SameCallWith(Blocking)

\* a tentative event in the middle of the range and one slot over all of it
C12_Witness ==
    /\ CalcDone
    /\ events = <<CalendarEvent(HMS(12, 0, 0), HMS(13, 0, 0), FALSE)>>
    /\ start_time = HMS(9, 0, 0)
    /\ end_time = HMS(17, 0, 0)
    /\ Len(Slots) = 1
    /\ Slots[1].start_time = HMS(9, 0, 0)
    /\ Slots[1].end_time = HMS(17, 0, 0)

\* the union of two events that overlap or touch
MergedEvent(a, b) == CalendarEvent(a.start_time, Max2(a.end_time, b.end_time), TRUE)

\* the list with the event at i replaced by its union with the event at j,
\* and the event at j removed
MergePair(evs, i, j) ==
    LET r == [evs EXCEPT ![i] = MergedEvent(evs[i], evs[j])]
    IN SubSeq(r, 1, j - 1) \o SubSeq(r, j + 1, Len(r))

\* C13: for blocking events that end at or after their start, replacing two
\* of them that overlap or touch (A.start <= B.start <= A.end) by their
\* union leaves the result unchanged, and no slot has a negative duration.
C13_OverlapIsUnion ==
    (CalcDone /\ BlockingWellFormed) =>
        /\ \A i \in 1..Len(Slots) : Slots[i].duration_minutes >= 0 /\ Slots[i].start_time < Slots[i].end_time
        /\ \A i, j \in 1..Len(events) :
            (/\ i # j
             /\ events[i].is_busy /\ events[j].is_busy
             /\ events[i].start_time <= events[j].start_time
             /\ events[j].start_time <= events[i].end_time)
            => calc_result = SameCallWith(MergePair(events, i, j))

\* 09:00-13:00 and 12:00-17:00 overlap, the later one given first: the one
\* slot is the one behind their union
C13_Witness ==
    /\ CalcDone
    /\ events = <<CalendarEvent(HMS(12, 0, 0), HMS(17, 0, 0), TRUE), CalendarEvent(HMS(9, 0, 0), HMS(13, 0, 0), TRUE)>>
    /\ start_time = HMS(9, 0, 0)
    /\ end_time = HMS(17, 0, 0)
    /\ Slots = <<>>
    /\ calc_result.raised = "none"

\* the rearrangements of a list of n elements
Perms(n) == {f \in [1..n -> 1..n] : \A i, j \in 1..n : i # j => f[i] # f[j]}

Permuted(evs, f) == [i \in 1..Len(evs) |-> evs[f[i]]]

\* the result is the same for every order of the input list
OrderIndependent == \A f \in Perms(Len(events)) : calc_result = SameCallWith(Permuted(events, f))

\* the blocking events in the order in which the loop visits them
Processed == SortByStart(BusyEvents(events))

\* ascending start, equal starts by ascending end
SortedByStartThenEnd(seq) ==
    \A i, j \in 1..Len(seq) :
        i < j => \/ seq[i].start_time < seq[j].start_time
                 \/ seq[i].start_time = seq[j].start_time /\ seq[i].end_time <= seq[j].end_time

\* ascending start, equal starts in the order of the list `from`
SortedByStartStable(seq, from) ==
    \E f \in Perms(Len(from)) :
        /\ seq = Permuted(from, f)
        /\ \A i, j \in 1..Len(seq) :
            i < j => \/ seq[i].start_time < seq[j].start_time
                     \/ seq[i].start_time = seq[j].start_time /\ f[i] < f[j]

\* C14 as stated: for blocking events with end >= start the result is the
\* same for every order of the list, and the events are processed by
\* ascending start with equal starts by ascending end.
C14_OrderFreeTiesByEnd ==
    (CalcDone /\ BlockingWellFormed) => OrderIndependent /\ SortedByStartThenEnd(Processed)

\* C14 as amended: for blocking events with end >= start the result is the
\* same for every order of the list; the events are processed by ascending
\* start, events of equal start in the order of the input list.
C14_OrderFreeStableSort ==
    (CalcDone /\ BlockingWellFormed) => OrderIndependent /\ SortedByStartStable(Processed, Blocking)

\* two events start at 12:00; the longer one is given first and processed
\* first, and the slots are those of either order
C14_Witness ==
    /\ CalcDone
    /\ events = <<CalendarEvent(HMS(12, 0, 0), HMS(13, 0, 0), TRUE), CalendarEvent(HMS(12, 0, 0), HMS(12, 0, 0), TRUE)>>
    /\ Processed = events
    /\ start_time = HMS(9, 0, 0)
    /\ end_time = HMS(17, 0, 0)
    /\ Len(Slots) = 2
    /\ Slots[2].start_time = HMS(13, 0, 0)

(***************************************************************************)
(* The returned slots, under Spec                                          *)
(***************************************************************************)
\* C15: for blocking events with end >= start, the slots are returned by
\* ascending start time (each slot starts after the one before it), also
\* when a later slot has the higher score.
C15_SlotsChronological ==
    (CalcDone /\ BlockingWellFormed) =>
        \A i \in 1..(Len(Slots) - 1) : Slots[i].start_time < Slots[i + 1].start_time

\* the slot of 59 minutes at 12:00:30 scores less than the slot of four
\* hours at 13:00 and is returned before it
C15_Witness ==
    /\ CalcDone
    /\ BlockingWellFormed
    /\ Len(Slots) = 2
    /\ Slots[1].start_time = HMS(12, 0, 30)
    /\ Slots[2].start_time = HMS(13, 0, 0)
    /\ Slots[1].quality_score < Slots[2].quality_score

BlockingSet == {Blocking[k] : k \in 1..Len(Blocking)}

\* every blocking event ends at or after its start and lies in the range
BlockingInsideRange ==
    \A b \in BlockingSet : start_time <= b.start_time /\ b.start_time <= b.end_time /\ b.end_time <= end_time

\* the start and the end of every returned slot
SlotSpans == {<<Slots[i].start_time, Slots[i].end_time>> : i \in 1..Len(Slots)}

\* whole minutes of a span
WholeMinutes(g) == (g[2] - g[1]) \div 60

LongEnough(gaps) == {g \in gaps : WholeMinutes(g) >= minimum_slot_minutes}

\* the maximal parts of the range that no blocking event covers; an event
\* covers the instants from its start up to its end, so an event of zero
\* length covers nothing
MaximalFreeSpans ==
    LET proper == {b \in BlockingSet : b.start_time < b.end_time}
    IN {g \in ({start_time} \cup {b.end_time : b \in proper}) \X ({end_time} \cup {b.start_time : b \in proper}) :
            /\ g[1] < g[2]
            /\ \A b \in proper : ~(b.start_time < g[2] /\ b.end_time > g[1])}

\* the gaps between and around the blocking events: from the range start or
\* the end of an event to the next start of an event or the range end, with
\* no event in between, an event of zero length included
GapsBetweenEvents ==
    {g \in ({start_time} \cup {b.end_time : b \in BlockingSet}) \X ({end_time} \cup {b.start_time : b \in BlockingSet}) :
        /\ g[1] < g[2]
        /\ \A b \in BlockingSet : ~(b.start_time < g[2] /\ b.end_time > g[1])}

\* C16 as stated: for blocking events inside the range, the returned slots
\* are exactly the maximal parts of the range covered by no blocking event
\* that last at least the minimum, one slot for each.
C16_SlotsAreMaximalFreeSpans ==
    (CalcDone /\ calc_result.raised = "none" /\ BlockingInsideRange) =>
        /\ SlotSpans = LongEnough(MaximalFreeSpans)
        /\ Len(Slots) = Cardinality(LongEnough(MaximalFreeSpans))

\* C16 as amended: for blocking events inside the range, the returned slots
\* are exactly the gaps between and around the blocking events that last at
\* least the minimum, one slot for each; an event of zero length ends one
\* gap and starts the next.
C16_SlotsAreGapsBetweenEvents ==
    (CalcDone /\ calc_result.raised = "none" /\ BlockingInsideRange) =>
        /\ SlotSpans = LongEnough(GapsBetweenEvents)
        /\ Len(Slots) = Cardinality(LongEnough(GapsBetweenEvents))

\* two gaps around two events of zero length, the half minute at the end is
\* too short: one slot
C16_Witness ==
    /\ CalcDone
    /\ calc_result.raised = "none"
    /\ minimum_slot_minutes = 30
    /\ start_time = HMS(9, 0, 0)
    /\ end_time = HMS(12, 0, 30)
    /\ events = <<CalendarEvent(HMS(9, 0, 0), HMS(9, 0, 0), TRUE), CalendarEvent(HMS(12, 0, 0), HMS(12, 0, 0), TRUE)>>
    /\ Cardinality(GapsBetweenEvents) = 2
    /\ Len(Slots) = 1

\* C18: range 09:00-17:00, one blocking event 12:00-13:00, minimum 30 and
\* default preferences give exactly the slots 09:00-12:00 (180 minutes) and
\* 13:00-17:00 (240 minutes), each with score 1.0.
C18_LunchScenario ==
    (/\ CalcDone
     /\ start_time = HMS(9, 0, 0)
     /\ end_time = HMS(17, 0, 0)
     /\ events = <<CalendarEvent(HMS(12, 0, 0), HMS(13, 0, 0), TRUE)>>
     /\ minimum_slot_minutes = 30
     /\ user_preferences = NoPrefs)
    => calc_result = [raised |-> "none",
                      free_slots |-> <<FreeTimeSlot(HMS(9, 0, 0), HMS(12, 0, 0), 180, 10),
                                       FreeTimeSlot(HMS(13, 0, 0), HMS(17, 0, 0), 240, 10)>>]

\* the call of the scenario has returned its two slots
C18_Witness ==
    /\ CalcDone
    /\ start_time = HMS(9, 0, 0)
    /\ end_time = HMS(17, 0, 0)
    /\ events = <<CalendarEvent(HMS(12, 0, 0), HMS(13, 0, 0), TRUE)>>
    /\ minimum_slot_minutes = 30
    /\ user_preferences = NoPrefs
    /\ Len(Slots) = 2

\* C19: a range whose start equals its end gives an empty result.
C19_EmptyRangeEmptyResult ==
    (CalcDone /\ start_time = end_time) => calc_result = [raised |-> "none", free_slots |-> <<>>]

\* C20: duration_minutes of a returned slot is the whole minutes of
\* end - start, and for blocking events inside the range a gap is returned
\* exactly when its whole minutes reach the minimum.
C20_WholeMinutes ==
    (CalcDone /\ calc_result.raised = "none") =>
        /\ \A i \in 1..Len(Slots) :
            /\ Slots[i].duration_minutes * 60 <= Slots[i].end_time - Slots[i].start_time
            /\ Slots[i].end_time - Slots[i].start_time < (Slots[i].duration_minutes + 1) * 60
        /\ BlockingInsideRange =>
            \A g \in GapsBetweenEvents : g \in SlotSpans <=> WholeMinutes(g) >= minimum_slot_minutes

\* a gap of 59 minutes 30 seconds is returned as 59 minutes
C20_Witness ==
    /\ CalcDone
    /\ minimum_slot_minutes = 0
    /\ start_time = HMS(12, 0, 30)
    /\ end_time = HMS(17, 0, 0)
    /\ events = <<CalendarEvent(HMS(13, 0, 0), HMS(17, 0, 0), TRUE)>>
    /\ Len(Slots) = 1
    /\ Slots[1].end_time - Slots[1].start_time = HMS(0, 59, 30)
    /\ Slots[1].duration_minutes = 59

(***************************************************************************)
(* Calls of calculate_free_time_slots by two callers on the one service    *)
(* object, interleaved statement by statement, under SpecCalls             *)
(***************************************************************************)
\* every call builds its slots in one list of the service object
SlotListShared(c) == 1

\* free_slots is a local variable: every call builds its slots in a list of
\* its own
SlotList(c) == c

CallEvents ==
    {CalendarEvent(HMS(9, 0, 0), HMS(12, 0, 0), TRUE), CalendarEvent(HMS(12, 0, 0), HMS(13, 0, 0), TRUE),
     CalendarEvent(HMS(13, 0, 0), HMS(12, 0, 0), TRUE), CalendarEvent(HMS(9, 0, 0), HMS(17, 0, 0), FALSE)}

CallEventLists == UNION {[1..n -> CallEvents] : n \in 0..MaxEvents}

CallArguments ==
    {Arguments(evs, HMS(9, 0, 0), HMS(17, 0, 0), p, 30) :
        evs \in CallEventLists, p \in {NoPrefs, [NoPrefs EXCEPT !["peak_hours_start"] = PyNone]}}

\* the arguments of a call that differs from the first caller's
OtherArguments == Arguments(<<CalendarEvent(HMS(12, 0, 0), HMS(13, 0, 0), TRUE)>>, HMS(12, 0, 30), HMS(17, 0, 0), NoPrefs, 0)

\* two callers hold their arguments, the same ones or different ones
InitCalls ==
    /\ service = ServiceAtConstruction
    /\ call_args \in {a \in [Callers -> CallArguments \cup {OtherArguments}] :
                        a[1] \in CallArguments /\ a[2] \in {a[1], OtherArguments}}
    /\ given_args = call_args
    /\ call_pc = [c \in Callers |-> "call"]
    /\ call_busy = [c \in Callers |-> <<>>]
    /\ call_cursor = [c \in Callers |-> 0]
    /\ slot_lists = [c \in Callers |-> <<>>]
    /\ call_result = [c \in Callers |-> NoCalcResult]
    /\ overlapped = FALSE
    /\ CalcIdle
    /\ ScoreIdle
    /\ AppIdle

\* the statements before the loop: the filtered list is a new list, which
\* is sorted; free_slots = []; current_time = start_time
CallBegin(c) ==
    /\ call_pc[c] = "call"
    /\ call_busy' = [call_busy EXCEPT ![c] = SortByStart(BusyEvents(call_args[c].events))]
    /\ slot_lists' = [slot_lists EXCEPT ![SlotList(c)] = <<>>]
    /\ call_cursor' = [call_cursor EXCEPT ![c] = call_args[c].start_time]
    /\ call_pc' = [call_pc EXCEPT ![c] = "loop"]
    /\ overlapped' = (overlapped \/ \E d \in Callers \ {c} : call_pc[d] = "loop")
    /\ UNCHANGED <<service, call_args, given_args, call_result, calc_vars, score_vars, app_vars>>

\* one pass of the loop body, or the exception that ends the call
CallStep(c) ==
    /\ call_pc[c] = "loop"
    /\ call_busy[c] # <<>>
    /\ LET a == call_args[c]
           g == EmitGap(slot_lists[SlotList(c)], call_cursor[c], Head(call_busy[c]).start_time,
                        a.user_preferences, a.minimum_slot_minutes)
       IN IF g.raised # "none"
          THEN /\ call_result' = [call_result EXCEPT ![c] = g]
               /\ call_pc' = [call_pc EXCEPT ![c] = "done"]
               /\ UNCHANGED <<slot_lists, call_cursor, call_busy>>
          ELSE /\ slot_lists' = [slot_lists EXCEPT ![SlotList(c)] = g.free_slots]
               /\ call_cursor' = [call_cursor EXCEPT ![c] = Advance(call_cursor[c], Head(call_busy[c]))]
               /\ call_busy' = [call_busy EXCEPT ![c] = Tail(call_busy[c])]
               /\ UNCHANGED <<call_result, call_pc>>
    /\ UNCHANGED <<service, call_args, given_args, overlapped, calc_vars, score_vars, app_vars>>

\* the statements behind the loop: the gap up to end_time and the return
CallReturn(c) ==
    /\ call_pc[c] = "loop"
    /\ call_busy[c] = <<>>
    /\ LET a == call_args[c]
           g == EmitGap(slot_lists[SlotList(c)], call_cursor[c], a.end_time, a.user_preferences, a.minimum_slot_minutes)
       IN /\ call_result' = [call_result EXCEPT ![c] = g]
          /\ slot_lists' = [slot_lists EXCEPT ![SlotList(c)] = g.free_slots]
    /\ call_pc' = [call_pc EXCEPT ![c] = "done"]
    /\ UNCHANGED <<service, call_args, given_args, call_busy, call_cursor, overlapped, calc_vars, score_vars, app_vars>>

NextCalls == \E c \in Callers : CallBegin(c) \/ CallStep(c) \/ CallReturn(c)

SpecCalls == InitCalls /\ [][NextCalls]_vars

\* what a call returns when nothing else runs
CallAlone(a) == CalculateFreeTimeSlots(a.events, a.start_time, a.end_time, a.user_preferences, a.minimum_slot_minutes)

\* C17: a call returns what its arguments determine, however the calls of
\* the callers are interleaved, so calls with identical arguments return
\* identical results; no call changes its arguments or the service object.
C17_CallsIndependent ==
    /\ \A c \in Callers : call_pc[c] = "done" => call_result[c] = CallAlone(given_args[c])
    /\ \A c, d \in Callers :
        (call_pc[c] = "done" /\ call_pc[d] = "done" /\ given_args[c] = given_args[d]) => call_result[c] = call_result[d]
    /\ call_args = given_args
    /\ service = ServiceAtConstruction

\* two calls with the same arguments ran one inside the other and both
\* returned the same two slots
C17_Witness ==
    /\ overlapped
    /\ \A c \in Callers : call_pc[c] = "done"
    /\ given_args[1] = given_args[2]
    /\ Len(call_result[1].free_slots) = 2
    /\ call_result[1] = call_result[2]

(***************************************************************************)
(* The REST endpoints of tasks, calendar events and pomodoro sessions,     *)
(* under SpecApi.  A request body is a record of the fields it sets; a     *)
(* handler is an operator from the stored documents and the request to     *)
(* the stored documents and the response.                                  *)
(***************************************************************************)
\* the authenticated users
Users == {"u1", "u2"}

\* a datetime value; the None a body may give for an Optional field is PyNone
DateTime(t) == [kind |-> "datetime", s |-> <<>>, n |-> t]

\* datetime.utcnow() at the moment of the call
Utcnow == "utcnow"

\* a body that sets no field
NoFields == [f \in {} |-> PyNone]

\* the handler returns: the documents are as it left them
Return(docs, code, body) == [records |-> docs, response |-> [status |-> code, body |-> body]]

\* raise HTTPException(status_code, detail): the documents are as they were
\* at that moment
HTTPException(docs, code, detail) == Return(docs, code, [detail |-> detail])

\* the ownership test without the comparison of user_id
NotFoundOfAnyOwner(docs, kind, id, u) == docs[id].kind # kind

\* Document.get(id) finds nothing in its collection, or
\* str(doc.user_id) != str(current_user.id)
NotFound(docs, kind, id, u) == docs[id].kind # kind \/ docs[id].user_id # u

\* for field, value in update_data.items(): setattr(doc, field, value)
SetFields(doc, update_data) == [f \in DOMAIN doc |-> IF f \in DOMAIN update_data THEN update_data[f] ELSE doc[f]]

(***************************** tasks ***************************************)
TaskFields == {"title", "status"}

\* TaskCreate: title is required, status has a default
TaskCreates == {[title |-> t] : t \in {"A", "B"}} \cup {[title |-> "A", status |-> "completed"]}

\* TaskUpdate: every field is optional
TaskUpdates ==
    {NoFields, [title |-> "B"], [title |-> "A", status |-> "completed"]} \cup {[status |-> st] : st \in {"todo", "completed"}}

\* Task(**task.dict(), user_id=...)
TaskDocument(u, task) ==
    [kind |-> "task", user_id |-> u, title |-> task.title,
     status |-> IF "status" \in DOMAIN task THEN task.status ELSE "todo", completed_at |-> "null"]

TaskResponse(id, task) ==
    [id |-> id, user_id |-> task.user_id, title |-> task.title, status |-> task.status, completed_at |-> task.completed_at]

\* the update that replaces the whole document by the body
UpdatedTaskReplaced(task, task_update) ==
    [TaskDocument(task.user_id, task_update @@ [title |-> task.title]) EXCEPT !.completed_at = task.completed_at]

\* update_data of the body, completed_at added when the status becomes
\* completed, set on the task field by field
UpdatedTask(task, task_update) ==
    LET update_data == IF "status" \in DOMAIN task_update /\ task_update.status = "completed" /\ task.status # "completed"
                       THEN task_update @@ [completed_at |-> Utcnow]
                       ELSE task_update
    IN SetFields(task, update_data)

create_task(docs, u, id, task) == Return([docs EXCEPT ![id] = TaskDocument(u, task)], 201, TaskResponse(id, TaskDocument(u, task)))

get_task(docs, u, id) ==
    IF NotFound(docs, "task", id, u) THEN HTTPException(docs, 404, "Task not found")
    ELSE Return(docs, 200, TaskResponse(id, docs[id]))

update_task(docs, u, id, task_update) ==
    IF NotFound(docs, "task", id, u) THEN HTTPException(docs, 404, "Task not found")
    ELSE Return([docs EXCEPT ![id] = UpdatedTask(docs[id], task_update)], 200, TaskResponse(id, UpdatedTask(docs[id], task_update)))

delete_task(docs, u, id) ==
    IF NotFound(docs, "task", id, u) THEN HTTPException(docs, 404, "Task not found")
    ELSE Return([docs EXCEPT ![id] = Deleted], 204, NoFields)

(************************* calendar events *********************************)
EventTimes == {DateTime(HMS(9, 0, 0)), DateTime(HMS(12, 0, 0))}

\* CalendarEventCreate: start_time and end_time are required datetimes
EventCreates == {[start_time |-> s, end_time |-> e] : s \in EventTimes, e \in EventTimes}

\* CalendarEventUpdate: both are optional, and a body may give null
EventUpdates ==
    {NoFields} \cup {[start_time |-> s] : s \in EventTimes \cup {PyNone}} \cup {[end_time |-> e] : e \in EventTimes \cup {PyNone}}
    \cup {[start_time |-> DateTime(HMS(12, 0, 0)), end_time |-> DateTime(HMS(9, 0, 0))],
          [start_time |-> DateTime(HMS(9, 0, 0)), end_time |-> DateTime(HMS(12, 0, 0))],
          [start_time |-> PyNone, end_time |-> DateTime(HMS(12, 0, 0))]}

\* the lists of a bulk import: an event that is valid and one whose end is
\* before its start
BulkImports ==
    UNION {[1..n -> {[start_time |-> DateTime(HMS(9, 0, 0)), end_time |-> DateTime(HMS(12, 0, 0))],
                     [start_time |-> DateTime(HMS(12, 0, 0)), end_time |-> DateTime(HMS(9, 0, 0))]}] : n \in 0..Cardinality(RecordIds)}

\* the identifiers that a bulk import can give to its documents
IdLists == UNION {[1..n -> RecordIds] : n \in 0..Cardinality(RecordIds)}

\* a < b: datetimes compare, None does not
Before(a, b) == IF a.kind = "datetime" /\ b.kind = "datetime" THEN (IF a.n < b.n THEN "True" ELSE "False") ELSE "TypeError"

EventDocument(u, event) == [kind |-> "event", user_id |-> u, start_time |-> event.start_time, end_time |-> event.end_time]

CalendarEventResponse(id, event) == [id |-> id, user_id |-> event.user_id, start_time |-> event.start_time, end_time |-> event.end_time]

\* an exception that leaves the try block of create_calendar_event:
\* except Exception catches the HTTPException as well and raises a 500
CreateEventExcept(docs, exception) == HTTPException(docs, 500, <<"Failed to create calendar event", exception>>)

create_calendar_event(docs, u, id, event) ==
    IF Before(event.end_time, event.start_time) = "True"
    THEN CreateEventExcept(docs, <<400, "End time cannot be before start time">>)
    ELSE Return([docs EXCEPT ![id] = EventDocument(u, event)], 201, CalendarEventResponse(id, EventDocument(u, event)))

\* the events of the list that are not skipped
Imported(import_events) == SelectSeq(import_events, LAMBDA e : Before(e.end_time, e.start_time) # "True")

\* ids: the identifiers the inserted documents get, in the order of insertion
bulk_import_events(docs, u, ids, import_events) ==
    Return([i \in RecordIds |->
                IF \E k \in 1..Len(ids) : ids[k] = i
                THEN EventDocument(u, Imported(import_events)[CHOOSE k \in 1..Len(ids) : ids[k] = i])
                ELSE docs[i]],
           201, [k \in 1..Len(ids) |-> CalendarEventResponse(ids[k], EventDocument(u, Imported(import_events)[k]))])

get_calendar_event(docs, u, id) ==
    IF NotFound(docs, "event", id, u) THEN HTTPException(docs, 404, "Event not found")
    ELSE Return(docs, 200, CalendarEventResponse(id, docs[id]))

\* the outcome of a comparison in the validation of an update: the 400 of
\* the branch, the 500 of the framework for a TypeError, or "valid"
Validated(comparison, detail) ==
    CASE comparison = "True" -> <<400, detail>>
      [] comparison = "TypeError" -> <<500, "Internal Server Error">>
      [] OTHER -> <<"valid">>

\* the validation without the branch for a body that gives end_time alone
UpdateValidationNoEndAlone(event, update_data) ==
    IF "start_time" \in DOMAIN update_data /\ "end_time" \in DOMAIN update_data
    THEN Validated(Before(update_data.end_time, update_data.start_time), "End time cannot be before start time")
    ELSE IF "start_time" \in DOMAIN update_data
    THEN Validated(Before(event.end_time, update_data.start_time), "Start time cannot be after current end time")
    ELSE <<"valid">>

\* the validation of the times of an update
UpdateValidation(event, update_data) ==
    IF "start_time" \in DOMAIN update_data /\ "end_time" \in DOMAIN update_data
    THEN Validated(Before(update_data.end_time, update_data.start_time), "End time cannot be before start time")
    ELSE IF "start_time" \in DOMAIN update_data
    THEN Validated(Before(event.end_time, update_data.start_time), "Start time cannot be after current end time")
    ELSE IF "end_time" \in DOMAIN update_data
    THEN Validated(Before(update_data.end_time, event.start_time), "End time cannot be before current start time")
    ELSE <<"valid">>

update_calendar_event(docs, u, id, event_update) ==
    IF NotFound(docs, "event", id, u) THEN HTTPException(docs, 404, "Event not found")
    ELSE IF UpdateValidation(docs[id], event_update) # <<"valid">>
    THEN HTTPException(docs, UpdateValidation(docs[id], event_update)[1], UpdateValidation(docs[id], event_update)[2])
    ELSE Return([docs EXCEPT ![id] = SetFields(docs[id], event_update)], 200, CalendarEventResponse(id, SetFields(docs[id], event_update)))

delete_calendar_event(docs, u, id) ==
    IF NotFound(docs, "event", id, u) THEN HTTPException(docs, 404, "Event not found")
    ELSE Return([docs EXCEPT ![id] = Deleted], 204, NoFields)

(************************ pomodoro sessions ********************************)
\* PomodoroSessionCreate: status has a default
SessionCreates == {[session_type |-> "focus"], [session_type |-> "focus", status |-> "interrupted"]}

\* PomodoroSessionUpdate
SessionUpdates == {NoFields, [status |-> "completed"], [status |-> "skipped"]}

SessionDocument(u, session) ==
    [kind |-> "session", user_id |-> u, session_type |-> session.session_type,
     status |-> IF "status" \in DOMAIN session THEN session.status ELSE "completed"]

PomodoroSessionResponse(id, session) ==
    [id |-> id, user_id |-> session.user_id, session_type |-> session.session_type, status |-> session.status]

create_pomodoro_session(docs, u, id, session) ==
    Return([docs EXCEPT ![id] = SessionDocument(u, session)], 201, PomodoroSessionResponse(id, SessionDocument(u, session)))

get_pomodoro_session(docs, u, id) ==
    IF NotFound(docs, "session", id, u) THEN HTTPException(docs, 404, "Session not found")
    ELSE Return(docs, 200, PomodoroSessionResponse(id, docs[id]))

update_pomodoro_session(docs, u, id, session_update) ==
    IF NotFound(docs, "session", id, u) THEN HTTPException(docs, 404, "Session not found")
    ELSE Return([docs EXCEPT ![id] = SetFields(docs[id], session_update)], 200,
                PomodoroSessionResponse(id, SetFields(docs[id], session_update)))

delete_pomodoro_session(docs, u, id) ==
    IF NotFound(docs, "session", id, u) THEN HTTPException(docs, 404, "Session not found")
    ELSE Return([docs EXCEPT ![id] = Deleted], 204, NoFields)

(***************************** the API *************************************)
outside_api == <<calc_vars, score_vars, calls_vars, sched_vars>>

InitApi ==
    /\ ApiIdle
    /\ SchedIdle
    /\ CalcIdle
    /\ ScoreIdle
    /\ CallsIdle

\* a request is handled: the endpoint, the user of the token and the id of
\* the path are those of the request, the documents and the response are
\* the handler's
Handle(op, u, id, handled) ==
    /\ api_call' = [op |-> op, user |-> u, id |-> id]
    /\ records' = handled.records
    /\ api_response' = handled.response
    /\ UNCHANGED outside_api

\* insert() gives the new document an identifier that no document has had
TaskRequest ==
    \E u \in Users, id \in RecordIds :
        \/ records[id] = Unused /\ \E task \in TaskCreates : Handle("create_task", u, id, create_task(records, u, id, task))
        \/ Handle("get_task", u, id, get_task(records, u, id))
        \/ \E task_update \in TaskUpdates : Handle("update_task", u, id, update_task(records, u, id, task_update))
        \/ Handle("delete_task", u, id, delete_task(records, u, id))

CalendarRequest ==
    \E u \in Users, id \in RecordIds :
        \/ records[id] = Unused
           /\ \E event \in EventCreates : Handle("create_calendar_event", u, id, create_calendar_event(records, u, id, event))
        \/ Handle("get_calendar_event", u, id, get_calendar_event(records, u, id))
        \/ \E event_update \in EventUpdates :
               Handle("update_calendar_event", u, id, update_calendar_event(records, u, id, event_update))
        \/ Handle("delete_calendar_event", u, id, delete_calendar_event(records, u, id))

\* the identifiers of the inserted documents are new and differ
BulkRequest ==
    \E u \in Users, ids \in IdLists, import_events \in BulkImports :
        /\ Len(ids) = Len(Imported(import_events))
        /\ \A k \in 1..Len(ids) : records[ids[k]] = Unused
        /\ \A j, k \in 1..Len(ids) : j # k => ids[j] # ids[k]
        /\ Handle("bulk_import_events", u, ids, bulk_import_events(records, u, ids, import_events))

PomodoroRequest ==
    \E u \in Users, id \in RecordIds :
        \/ records[id] = Unused
           /\ \E session \in SessionCreates :
                  Handle("create_pomodoro_session", u, id, create_pomodoro_session(records, u, id, session))
        \/ Handle("get_pomodoro_session", u, id, get_pomodoro_session(records, u, id))
        \/ \E session_update \in SessionUpdates :
               Handle("update_pomodoro_session", u, id, update_pomodoro_session(records, u, id, session_update))
        \/ Handle("delete_pomodoro_session", u, id, delete_pomodoro_session(records, u, id))

NextApi == TaskRequest \/ CalendarRequest \/ BulkRequest \/ PomodoroRequest

SpecApi == InitApi /\ [][NextApi]_vars

(***************************************************************************)
(* The task endpoints, under SpecApi                                       *)
(***************************************************************************)
\* the id is that of a task of user u
TaskOf(id, u) == records[id].kind = "task" /\ records[id].user_id = u

StoredEvents == {id \in RecordIds : records[id].kind = "event"}

\* C27: after any sequence of create_calendar_event, bulk_import_events and
\* update_calendar_event operations, accepted or rejected, every stored
\* calendar event has end_time >= start_time.
C27_StoredEventsOrdered ==
    \A id \in StoredEvents :
        /\ records[id].start_time.kind = "datetime"
        /\ records[id].end_time.kind = "datetime"
        /\ records[id].end_time.n >= records[id].start_time.n

\* an update that gives only an end_time before the stored start_time was
\* rejected, and the event is stored as it was
C27_Witness ==
    /\ api_call.op = "update_calendar_event"
    /\ api_response = [status |-> 400, body |-> [detail |-> "End time cannot be before current start time"]]
    /\ api_call.id \in StoredEvents
    /\ records[api_call.id].start_time = DateTime(HMS(12, 0, 0))
    /\ records[api_call.id].end_time = DateTime(HMS(12, 0, 0))

\* C28: create_calendar_event with end_time before start_time answers
\* 400 Bad Request with the detail "End time cannot be before start time"
\* and stores no event.
C28_InvertedCreateAnswers400 ==
    (api_call.op = "create_calendar_event" /\ api_response.status # 201) =>
        /\ api_response = [status |-> 400, body |-> [detail |-> "End time cannot be before start time"]]
        /\ records[api_call.id] = Unused

(***************************************************************************)
(* Ownership, under SpecApi                                                *)
(***************************************************************************)
\* what a user who does not own the document is answered
Hidden(docs, handled) == handled.response.status = 404 /\ handled.records = docs

\* C29: in every state the API reaches, get, update and delete on the id of
\* a task, calendar event or pomodoro session answer 404 to every user
\* other than the one who created it and leave the stored documents as
\* they are.
C29_OnlyTheOwner ==
    \A id \in RecordIds, v \in Users :
        /\ (records[id].kind = "task" /\ records[id].user_id # v) =>
            /\ Hidden(records, get_task(records, v, id))
            /\ \A task_update \in TaskUpdates : Hidden(records, update_task(records, v, id, task_update))
            /\ Hidden(records, delete_task(records, v, id))
        /\ (records[id].kind = "event" /\ records[id].user_id # v) =>
            /\ Hidden(records, get_calendar_event(records, v, id))
            /\ \A event_update \in EventUpdates : Hidden(records, update_calendar_event(records, v, id, event_update))
            /\ Hidden(records, delete_calendar_event(records, v, id))
        /\ (records[id].kind = "session" /\ records[id].user_id # v) =>
            /\ Hidden(records, get_pomodoro_session(records, v, id))
            /\ \A session_update \in SessionUpdates : Hidden(records, update_pomodoro_session(records, v, id, session_update))
            /\ Hidden(records, delete_pomodoro_session(records, v, id))

\* a user asked to delete the task of the other user and was answered 404;
\* the other document is a calendar event of the asking user
C29_Witness ==
    /\ api_call.op = "delete_task"
    /\ api_response.status = 404
    /\ records[api_call.id].kind = "task"
    /\ records[api_call.id].user_id # api_call.user
    /\ \E i \in RecordIds : records[i].kind = "event" /\ records[i].user_id = api_call.user

(***************************************************************************)
(* Windows that do not wrap around midnight, under SpecScore               *)
(***************************************************************************)
\* C26: when the work hours of the preferences start at or after the hour
\* they end, the score of a slot that starts at any hour is the rule table
\* without the work-hours bonus, and when the peak hours start at or after
\* the hour they end it is the rule table without the peak bonus.
C26_InvertedWindowNoBonus ==
    (ScoreDone /\ AllWellFormed /\ (WorkInverted \/ PeakInverted)) =>
        score_result =
            Returned(Max2(0, Min2(10,
                RuleSum(slot_start \div 3600, (slot_end - slot_start) \div 60,
                        IF WorkInverted THEN 0 ELSE HourMeant(slot_preferences, "work_start_time"),
                        IF WorkInverted THEN 0 ELSE HourMeant(slot_preferences, "work_end_time"),
                        IF PeakInverted THEN 0 ELSE HourMeant(slot_preferences, "peak_hours_start"),
                        IF PeakInverted THEN 0 ELSE HourMeant(slot_preferences, "peak_hours_end"),
                        StyleOf(slot_preferences)))))

\* work hours 20 to 8 and peak hours 16 to 14: a slot that starts at hour
\* 22 has the late penalty and no bonus
C26_Witness ==
    /\ ScoreDone
    /\ slot_preferences["work_start_time"] = PyStr(S_Stamp20)
    /\ slot_preferences["work_end_time"] = PyStr(S_0800)
    /\ slot_preferences["peak_hours_start"] = PyStr(S_1600)
    /\ slot_preferences["peak_hours_end"] = PyStr(S_140000)
    /\ slot_start = HMS(22, 0, 0)
    /\ slot_end = HMS(22, 30, 0)
    /\ score_result = Returned(2)

(***************************************************************************)
(* Disjoint slots for every admitted input, under Spec                     *)
(***************************************************************************)
\* C25: for every list of events the schema admits, blocking events whose
\* end is before their start included, the returned slots are pairwise
\* disjoint and in order: each slot ends at or before the start of the
\* next one, and no slot is returned twice.
C25_SlotsDisjointForAnyInput ==
    CalcDone =>
        /\ \A i \in 1..(Len(Slots) - 1) : Slots[i].end_time <= Slots[i + 1].start_time
        /\ \A i, j \in 1..Len(Slots) : i # j => Slots[i] # Slots[j]

(***************************************************************************)
(* schedule_tasks and reschedule_task of AISchedulingService, under        *)
(* SpecSchedule.  One day is modelled; the range of every request is       *)
(* 05:00 to 22:00, the user has the default preferences next to            *)
(* sync_with_google_calendar, and the request includes the calendar.       *)
(***************************************************************************)
\* the most reschedule_task calls after a scheduling run
MaxReschedules == 2

\* the timestamp the AI is asked to write, at hour h
IsoStamp(h) == <<"2", "0", "2", "5", "-", "0", "7", "-", "2", "6", "T">> \o TwoDigits(h) \o <<":", "0", "0", ":", "0", "0">>

\* datetime.fromisoformat on YYYY-MM-DDTHH:MM:SS; any other text raises
FromIsoFormat(x) ==
    IF /\ Len(x) = 19
       /\ \A i \in {1, 2, 3, 4, 6, 7, 9, 10, 12, 13, 15, 16, 18, 19} : IsDigit(x[i])
       /\ x[5] = "-" /\ x[8] = "-" /\ x[11] = "T" /\ x[14] = ":" /\ x[17] = ":"
    THEN Returned(DateTime(HMS(DigitsValue(SubSeq(x, 12, 13)), DigitsValue(SubSeq(x, 15, 16)), DigitsValue(SubSeq(x, 18, 19)))))
    ELSE Raised("ValueError")

\* UserPreferences(user_id=...).dict(), the keys the slot computation reads
DefaultUserPrefs ==
    [NoPrefs EXCEPT !["work_start_time"] = PyStr(S_0900), !["work_end_time"] = PyStr(S_1700),
                    !["peak_hours_start"] = PyStr(S_1000), !["peak_hours_end"] = PyStr(S_1200),
                    !["work_style"] = PyStr(<<"flexible">>)]

\* the task ids of request.tasks
RequestTasks == {<<"t1">>, <<"t1", "t2">>}

\* what get_user_calendar_events returns for the user's calendar
GoogleCalendars ==
    {<<>>,
     <<CalendarEvent(HMS(5, 40, 0), HMS(17, 0, 0), TRUE)>>,
     <<CalendarEvent(HMS(5, 40, 0), HMS(17, 0, 0), TRUE), CalendarEvent(HMS(17, 30, 0), HMS(19, 0, 0), TRUE),
       CalendarEvent(HMS(19, 30, 0), HMS(20, 0, 0), TRUE)>>,
     <<CalendarEvent(HMS(5, 0, 0), HMS(10, 0, 0), TRUE), CalendarEvent(HMS(10, 30, 0), HMS(11, 0, 0), TRUE)>>,
     <<CalendarEvent(HMS(5, 0, 0), HMS(22, 0, 0), TRUE)>>}

\* the entries of "scheduled_tasks" in an AI reply: for a task of the
\* request or another one, with a scheduled_start that is a timestamp or
\* not, and a confidence_score (in tenths) inside [0, 1] or above
AiEntries ==
    {[task_id |-> e[1], scheduled_start |-> e[2], scheduled_end |-> IsoStamp(21), duration_minutes |-> 60, confidence_score |-> e[3]] :
        e \in {<<"t1", IsoStamp(20), 8>>, <<"t2", IsoStamp(20), 8>>, <<"t2", S_BadStamp, 8>>,
               <<"t1", IsoStamp(20), 15>>, <<"t9", IsoStamp(20), 8>>}}

\* response.content: text that is not JSON, a JSON object without
\* "scheduled_tasks", or one with up to two entries
AiContents ==
    {[json |-> FALSE, value |-> NoFields], [json |-> TRUE, value |-> NoFields]}
    \cup {[json |-> TRUE, value |-> [scheduled_tasks |-> entries]] : entries \in UNION {[1..n -> AiEntries] : n \in 0..2}}

\* the fallback raises instead of answering with no entry
GetAiSchedulingRecommendationsNoFallback(content) == content.value

\* json.loads(response.content), and the fallback for JSONDecodeError
GetAiSchedulingRecommendations(content) == IF content.json THEN content.value ELSE [scheduled_tasks |-> <<>>]

\* every computed slot reaches the prompt
QualitySlotsUnfiltered(slots) == RankByQuality(slots)

\* [slot for slot in free_slots if slot.quality_score >= 0.3], then
\* sort(key=quality_score, reverse=True), which keeps the order of equals
QualitySlots(slots) == RankByQuality(SelectSeq(slots, LAMBDA slot : slot.quality_score >= 3))

\* ScheduledTask(...) of _create_scheduled_task
ScheduledTaskDocument(task_id, ai_schedule) ==
    [task_id |-> task_id, scheduled_start |-> FromIsoFormat(ai_schedule.scheduled_start).value,
     scheduled_end |-> FromIsoFormat(ai_schedule.scheduled_end).value, duration_minutes |-> ai_schedule.duration_minutes,
     ai_confidence_score |-> ai_schedule.confidence_score, original_scheduled_start |-> PyNone, reschedule_count |-> 0]

\* the loop over request.tasks: run holds the documents saved so far, the
\* calendar events created so far, the two lists and the exception raised
RECURSIVE ProcessTasks(_, _, _, _, _)
ProcessTasks(tasks, entries, token, create, run) ==
    IF tasks = <<>> \/ run.raised # "none" THEN run
    ELSE LET task_id == Head(tasks)
             found == {k \in 1..Len(entries) : entries[k].task_id = task_id}
             ai_schedule == entries[CHOOSE k \in found : \A j \in found : k <= j]
             doc == ScheduledTaskDocument(task_id, ai_schedule)
             saved == Append(run.docs, doc)
             calendar == IF create /\ token # PyNone
                         THEN Append(run.events, [title |-> task_id, start_time |-> doc.scheduled_start, end_time |-> doc.scheduled_end])
                         ELSE run.events
             result == [task_id |-> task_id, scheduled_start |-> doc.scheduled_start, scheduled_end |-> doc.scheduled_end,
                        duration_minutes |-> doc.duration_minutes, confidence_score |-> doc.ai_confidence_score,
                        calendar_event_id |-> IF create /\ token # PyNone THEN PyInt(Len(calendar)) ELSE PyNone]
         IN ProcessTasks(Tail(tasks), entries, token, create,
                IF found = {} THEN [run EXCEPT !.unscheduled = Append(@, task_id)]
                ELSE IF FromIsoFormat(ai_schedule.scheduled_start).raised # "none" \/ FromIsoFormat(ai_schedule.scheduled_end).raised # "none"
                THEN [run EXCEPT !.raised = "ValueError"]
                ELSE IF ~(0 <= doc.ai_confidence_score /\ doc.ai_confidence_score <= 10)
                THEN [run EXCEPT !.docs = saved, !.events = calendar, !.raised = "ValidationError"]
                ELSE [run EXCEPT !.docs = saved, !.events = calendar, !.scheduled = Append(@, result)])

\* docs and calendar: the scheduled_tasks collection and the user's
\* calendar before the call
schedule_tasks(docs, tasks, token, create, calendar, content) ==
    LET NoRun(exception) == [docs |-> docs, events |-> <<>>, scheduled |-> <<>>, unscheduled |-> <<>>, raised |-> exception]
        \* steps 4 to 8 and the except clause, for the slots of step 3
        Scheduled(computed, ai_response) ==
            LET Response(run) ==
                    [free_slots |-> computed.free_slots,
                     prompt_free_slots |-> IF computed.raised = "none" THEN QualitySlots(computed.free_slots) ELSE <<>>,
                     docs |-> run.docs,
                     events |-> run.events,
                     response |-> IF run.raised = "none"
                                  THEN [success |-> TRUE, scheduled_tasks |-> run.scheduled, unscheduled_tasks |-> run.unscheduled]
                                  ELSE [success |-> FALSE, scheduled_tasks |-> <<>>, unscheduled_tasks |-> tasks]]
            IN Response(IF computed.raised # "none" THEN NoRun(computed.raised)
                        ELSE IF "scheduled_tasks" \notin DOMAIN ai_response THEN NoRun("KeyError")
                        ELSE ProcessTasks(tasks, ai_response.scheduled_tasks, token, create, NoRun("none")))
    IN Scheduled(CalculateFreeTimeSlots(IF token # PyNone THEN calendar ELSE <<>>, HMS(5, 0, 0), HMS(22, 0, 0), DefaultUserPrefs, 25),
                 GetAiSchedulingRecommendations(content))

\* ScheduledTask.get(id) finds nothing: False; otherwise the task is moved
reschedule_task(docs, scheduled_task_id, new_start_time) ==
    IF scheduled_task_id \notin DOMAIN docs THEN [docs |-> docs, returned |-> FALSE]
    ELSE LET scheduled_task == docs[scheduled_task_id]
         IN [docs |-> [docs EXCEPT ![scheduled_task_id] =
                          [scheduled_task EXCEPT !.original_scheduled_start = scheduled_task.scheduled_start,
                                                 !.scheduled_start = new_start_time,
                                                 !.scheduled_end = DateTime(new_start_time.n + 60 * scheduled_task.duration_minutes),
                                                 !.reschedule_count = @ + 1]],
             returned |-> TRUE]

\* a caller holds a request, the user's token and preference, the calendar
\* and the reply the AI will give
InitSchedule ==
    /\ request_tasks \in RequestTasks
    /\ user_access_token \in {PyNone, PyStr(<<"t", "o", "k", "e", "n">>)}
    /\ create_calendar_events \in BOOLEAN
    /\ google_calendar \in GoogleCalendars
    /\ ai_content \in AiContents
    /\ sched_pc = "call"
    /\ sched_free_slots = <<>>
    /\ prompt_free_slots = <<>>
    /\ scheduled_tasks = <<>>
    /\ created_events = <<>>
    /\ scheduling_response = [success |-> "none"]
    /\ reschedule_log = <<>>
    /\ ApiIdle
    /\ CalcIdle
    /\ ScoreIdle
    /\ CallsIdle

\* schedule_tasks runs to its return
ScheduleTasks ==
    /\ sched_pc = "call"
    /\ \E done \in {schedule_tasks(scheduled_tasks, request_tasks, user_access_token, create_calendar_events, google_calendar, ai_content)} :
          /\ sched_free_slots' = done.free_slots
          /\ prompt_free_slots' = done.prompt_free_slots
          /\ scheduled_tasks' = done.docs
          /\ created_events' = done.events
          /\ scheduling_response' = done.response
    /\ sched_pc' = "done"
    /\ UNCHANGED <<request_tasks, user_access_token, create_calendar_events, google_calendar, ai_content, reschedule_log>>
    /\ UNCHANGED <<calc_vars, score_vars, calls_vars, records, api_call, api_response>>

\* reschedule_task runs to its return; the log keeps the id, the start the
\* task had before the call and what the call returned
RescheduleTask(scheduled_task_id, new_start_time) ==
    /\ sched_pc = "done"
    /\ Len(reschedule_log) < MaxReschedules
    /\ \E done \in {reschedule_task(scheduled_tasks, scheduled_task_id, new_start_time)} :
          /\ scheduled_tasks' = done.docs
          /\ reschedule_log' =
                Append(reschedule_log,
                       [scheduled_task_id |-> scheduled_task_id,
                        start_before |-> IF done.returned THEN scheduled_tasks[scheduled_task_id].scheduled_start ELSE PyNone,
                        returned |-> done.returned])
    /\ UNCHANGED <<request_tasks, user_access_token, create_calendar_events, google_calendar, ai_content,
                   sched_pc, sched_free_slots, prompt_free_slots, created_events, scheduling_response>>
    /\ UNCHANGED <<calc_vars, score_vars, calls_vars, records, api_call, api_response>>

NextSchedule ==
    \/ ScheduleTasks
    \/ \E scheduled_task_id \in 1..(Len(scheduled_tasks) + 1), h \in {10, 11} : RescheduleTask(scheduled_task_id, DateTime(HMS(h, 0, 0)))

SpecSchedule == InitSchedule /\ [][NextSchedule]_vars

(***************************************************************************)
(* Claims about schedule_tasks and reschedule_task, under SpecSchedule     *)
(***************************************************************************)
SchedDone == sched_pc = "done"

\* the computed slots whose score is at least 0.3
KeptSlots == {i \in 1..Len(sched_free_slots) : sched_free_slots[i].quality_score >= 3}

\* the place of a kept slot: behind every kept slot of a higher score and
\* every earlier kept slot of the same score
PlaceInPrompt(i) ==
    1 + Cardinality({j \in KeptSlots :
            \/ sched_free_slots[j].quality_score > sched_free_slots[i].quality_score
            \/ /\ sched_free_slots[j].quality_score = sched_free_slots[i].quality_score
               /\ sched_free_slots[j].start_time < sched_free_slots[i].start_time})

\* C22: the free slots of the prompt are exactly the computed slots with a
\* score of at least 0.3, best score first, and slots of equal score in
\* chronological order.
C22_PromptSlotsRanked ==
    SchedDone =>
        /\ Len(prompt_free_slots) = Cardinality(KeptSlots)
        /\ \A i \in KeptSlots : prompt_free_slots[PlaceInPrompt(i)] = sched_free_slots[i]

\* four computed slots: the one at 05:00 scores 0.2 and is left out, the
\* one at 20:00 scores 0.7 and comes first, those at 17:00 and 19:00 score
\* 0.5 and follow in that order
C22_Witness ==
    /\ SchedDone
    /\ Len(sched_free_slots) = 4
    /\ sched_free_slots[1].quality_score = 2
    /\ Len(prompt_free_slots) = 3
    /\ prompt_free_slots[1].start_time = HMS(20, 0, 0) /\ prompt_free_slots[1].quality_score = 7
    /\ prompt_free_slots[2].start_time = HMS(17, 0, 0) /\ prompt_free_slots[2].quality_score = 5
    /\ prompt_free_slots[3].start_time = HMS(19, 0, 0) /\ prompt_free_slots[3].quality_score = 5

\* the task ids of a list of results
TaskIdsOf(results) == {results[k].task_id : k \in 1..Len(results)}

\* the number of places at which a task id stands in the two lists
Listed(t) ==
    Cardinality({k \in 1..Len(scheduling_response.scheduled_tasks) : scheduling_response.scheduled_tasks[k].task_id = t})
    + Cardinality({k \in 1..Len(scheduling_response.unscheduled_tasks) : scheduling_response.unscheduled_tasks[k] = t})

\* the AI reply is JSON with an entry for the task
AiHasEntry(t) ==
    /\ ai_content.json
    /\ "scheduled_tasks" \in DOMAIN ai_content.value
    /\ \E k \in 1..Len(ai_content.value.scheduled_tasks) : ai_content.value.scheduled_tasks[k].task_id = t

\* C23: when schedule_tasks returns success = true, every task id of the
\* request stands in exactly one of scheduled_tasks and unscheduled_tasks,
\* in scheduled_tasks iff the AI reply has an entry with its task_id; when
\* the AI reply is not valid JSON the result is success = true with no
\* scheduled task and every task id of the request in unscheduled_tasks.
C23_EveryTaskInOneList ==
    SchedDone =>
        /\ scheduling_response.success =>
            \A k \in 1..Len(request_tasks) :
                /\ Listed(request_tasks[k]) = 1
                /\ request_tasks[k] \in TaskIdsOf(scheduling_response.scheduled_tasks) <=> AiHasEntry(request_tasks[k])
        /\ ~ai_content.json =>
            /\ scheduling_response.success
            /\ scheduling_response.scheduled_tasks = <<>>
            /\ scheduling_response.unscheduled_tasks = request_tasks

\* two tasks, a reply with entries for t1 and for a task that was not
\* asked for: t1 is scheduled and t2 is not
C23_Witness ==
    /\ SchedDone
    /\ request_tasks = <<"t1", "t2">>
    /\ AiHasEntry("t1") /\ AiHasEntry("t9")
    /\ scheduling_response.success
    /\ TaskIdsOf(scheduling_response.scheduled_tasks) = {"t1"}
    /\ scheduling_response.unscheduled_tasks = <<"t2">>
    /\ Len(scheduled_tasks) = 1

\* C24: when schedule_tasks returns success = false, every task id of the
\* request is in unscheduled_tasks, no ScheduledTask document was saved and
\* no calendar event was created.
C24_FailedRunLeavesNothing ==
    (SchedDone /\ ~scheduling_response.success) =>
        /\ scheduling_response.unscheduled_tasks = request_tasks
        /\ scheduled_tasks = <<>>
        /\ created_events = <<>>

\* the successful calls of the log that moved the task
Moves(id) == SelectSeq(reschedule_log, LAMBDA call : call.returned /\ call.scheduled_task_id = id)

\* C30: after one or more successful reschedule_task calls on a scheduled
\* task, original_scheduled_start is the scheduled_start the task had
\* before the first of them and reschedule_count is their number.
C30_OriginalStartKept ==
    \A id \in DOMAIN scheduled_tasks :
        Moves(id) # <<>> =>
            /\ scheduled_tasks[id].original_scheduled_start = Moves(id)[1].start_before
            /\ scheduled_tasks[id].reschedule_count = Len(Moves(id))

====
